---- MODULE Spec2Model ----
(***************************************************************************)
(* Model of populate.py, the Wait Wait Stats show URL populator.           *)
(*                                                                         *)
(* A string is a sequence of one-character strings (a fixed literal of the *)
(* source is kept as one element).  A value that may be None in Python or  *)
(* NULL in the store is None (the empty tuple) or Some(v) (the 1-tuple     *)
(* holding v), so that the empty string and NULL stay different values.    *)
(* A calendar date is a record [year, month, day].                         *)
(***************************************************************************)
EXTENDS Integers, Sequences, FiniteSets, TLC

VARIABLES
    pc,              \* position of the process in main and its callees
    ww_shows,        \* the table: committed showurl of every stored showdate
    uncommitted,     \* writes of the connection that are not committed
    autocommit,      \* the connection's autocommit setting
    backfill,        \* command_args.backfill
    show_urls,       \* the date -> URL dictionary, in iteration order
    all_show_dates,  \* update_urls_from_dict: the known-dates snapshot
    i,               \* position of the running for loop
    cursor,          \* whether the local name cursor is bound
    shows,           \* update_urls_using_template: the selected rows
    show_url,        \* update_urls_using_template: the generated URL
    error,           \* how the process failed, "" while it has not
    stdout,          \* the messages printed so far
    issued,          \* history: the UPDATE statements executed, in order
    at_start,        \* history: the table when the run started
    at_snapshot,     \* history: the table when the known dates were read
    at_return,       \* history: the table when update_urls_from_dict ended
    at_select,       \* history: the table when the NULL rows were selected
    passes,          \* history: the tables at the end of each backfill pass
    external         \* number of changes made by other clients of the store

vars == <<pc, ww_shows, uncommitted, autocommit, backfill, show_urls,
          all_show_dates, i, cursor, shows, show_url, error, stdout, issued,
          at_start, at_snapshot, at_return, at_select, passes, external>>

-----------------------------------------------------------------------------
(* Bounds of the model *)

MaxRows == 2          \* data rows of the CSV file
MaxExternal == 1      \* changes by other clients during one run
MaxPasses == 2        \* backfill passes run in a row
FirstYear == 1998     \* first year of the dates given to npr_show_url
LastYear == 2007      \* last year of the dates given to npr_show_url

-----------------------------------------------------------------------------
(* Values *)

None == << >>
Some(v) == <<v>>
Value(o) == o[1]

Date(y, m, d) == [year |-> y, month |-> m, day |-> d]

IsLeap(y) == (y % 4 = 0 /\ y % 100 # 0) \/ y % 400 = 0

DaysInMonth(y, m) ==
    IF m = 2 THEN (IF IsLeap(y) THEN 29 ELSE 28)
    ELSE IF m \in {4, 6, 9, 11} THEN 30 ELSE 31

ValidDates ==
    {dt \in [year : FirstYear..LastYear, month : 1..12, day : 1..31] :
        dt.day <= DaysInMonth(dt.year, dt.month)}

\* date.__ge__: year, month and day compared in that order
DateGE(a, b) ==
    \/ a.year > b.year
    \/ a.year = b.year /\ a.month > b.month
    \/ a.year = b.year /\ a.month = b.month /\ a.day >= b.day

-----------------------------------------------------------------------------
(* strftime and isoformat *)

Digit(n) == <<"0", "1", "2", "3", "4", "5", "6", "7", "8", "9">>[n + 1]

\* %m, %d: two digits, zero-padded
Pad2(n) == <<Digit((n \div 10) % 10), Digit(n % 10)>>

\* %Y: the year with century
Pad4(n) == <<Digit((n \div 1000) % 10), Digit((n \div 100) % 10)>> \o Pad2(n)

\* %y: the year without century, two digits
StrfYY(dt) == Pad2(dt.year % 100)

\* %b: the abbreviated month name
StrfB(dt) ==
    << <<"J", "a", "n">>, <<"F", "e", "b">>, <<"M", "a", "r">>,
       <<"A", "p", "r">>, <<"M", "a", "y">>, <<"J", "u", "n">>,
       <<"J", "u", "l">>, <<"A", "u", "g">>, <<"S", "e", "p">>,
       <<"O", "c", "t">>, <<"N", "o", "v">>, <<"D", "e", "c">> >>[dt.month]

LowerChar(c) ==
    CASE c = "J" -> "j" [] c = "F" -> "f" [] c = "M" -> "m" [] c = "A" -> "a"
      [] c = "S" -> "s" [] c = "O" -> "o" [] c = "N" -> "n" [] c = "D" -> "d"
      [] OTHER -> c

\* str.lower
Lower(s) == [k \in 1..Len(s) |-> LowerChar(s[k])]

\* date.isoformat: YYYY-MM-DD
isoformat(dt) == Pad4(dt.year) \o <<"-">> \o Pad2(dt.month) \o <<"-">> \o Pad2(dt.day)

-----------------------------------------------------------------------------
(* npr_show_url *)

url_prefix == <<"https://www.npr.org/programs/wait-wait-dont-tell-me/archive?date=">>
legacy_url_prefix == <<"https://legacy.npr.org/programs/waitwait/archrndwn">>
legacy_url_suffix == <<".waitwait.html">>

CutoffDate == Date(2006, 1, 7)

UrlIsModernGT(show_date) == DateGE(show_date, CutoffDate) /\ show_date # CutoffDate

UrlIsModern(show_date) == DateGE(show_date, CutoffDate)

npr_show_url(show_date) ==
    IF UrlIsModern(show_date)
    THEN url_prefix \o Pad2(show_date.month) \o <<"-">> \o Pad2(show_date.day)
            \o <<"-">> \o Pad4(show_date.year)
    ELSE legacy_url_prefix \o <<"/">> \o Pad4(show_date.year) \o <<"/">>
            \o Lower(StrfB(show_date)) \o <<"/">>
            \o StrfYY(show_date) \o Pad2(show_date.month) \o Pad2(show_date.day)
            \o legacy_url_suffix

-----------------------------------------------------------------------------
(* The store: table ww_shows(showdate unique, showurl nullable) *)

NULL == None

\* the show dates a run of main works on, and those of a lone backfill pass
ShowDates == {Date(1998, 10, 3), Date(2006, 1, 7)}
BackfillDates == ShowDates \cup {Date(2006, 1, 6), Date(2020, 1, 4)}

StoredUrl == Some(<<"https://www.npr.org/2006/01/07/stored">>)

TablesOf(dates) == UNION {[D -> {NULL, StoredUrl}] : D \in SUBSET dates}

Tables == TablesOf(ShowDates)

Earliest(S) == CHOOSE d \in S : \A e \in S : DateGE(e, d)

RECURSIVE OrderByShowdate(_)
\* ORDER BY showdate ASC
OrderByShowdate(S) ==
    IF S = {} THEN << >>
    ELSE <<Earliest(S)>> \o OrderByShowdate(S \ {Earliest(S)})

Range(s) == {s[k] : k \in 1..Len(s)}

\* what the connection reads: the committed rows under its own pending writes
View ==
    [d \in DOMAIN ww_shows |->
        IF d \in DOMAIN uncommitted THEN uncommitted[d] ELSE ww_shows[d]]

\* the rows matched by WHERE showdate = %s
Matched(show_date) == {d \in DOMAIN ww_shows : isoformat(d) = show_date}

UpdateLost(url, show_date) == ww_shows

\* UPDATE ww_shows SET showurl = %s WHERE showdate = %s, on a committing connection
UpdateCommitted(url, show_date) ==
    [d \in DOMAIN ww_shows |->
        IF d \in Matched(show_date) THEN url ELSE ww_shows[d]]

\* the same statement left pending in an open transaction
UpdatePending(url, show_date) ==
    [d \in DOMAIN uncommitted \cup Matched(show_date) |->
        IF d \in Matched(show_date) THEN url ELSE uncommitted[d]]

Execute(url, show_date, by) ==
    /\ IF autocommit
       THEN ww_shows' = UpdateCommitted(url, show_date) /\ UNCHANGED uncommitted
       ELSE uncommitted' = UpdatePending(url, show_date) /\ UNCHANGED ww_shows
    /\ issued' = Append(issued, [url |-> url, showdate |-> show_date, by |-> by])

print(text, show_date) == stdout' = Append(stdout, [text |-> text, date |-> show_date])

-----------------------------------------------------------------------------
(* parse_database_config *)

\* the JSON document: without a usable "database" object, or with one whose
\* "autocommit" key is absent, false or true
Configs ==
    {None, Some([autocommit |-> None]), Some([autocommit |-> Some(FALSE)]),
     Some([autocommit |-> Some(TRUE)])}

KeepAutocommit(config) ==
    IF config = None THEN None
    ELSE IF Value(config).autocommit = None THEN Some([autocommit |-> FALSE])
    ELSE Some([autocommit |-> Value(Value(config).autocommit)])

parse_database_config(config) ==
    IF config = None THEN None
    ELSE IF Value(config).autocommit = None \/ ~Value(Value(config).autocommit)
         THEN Some([autocommit |-> TRUE])
         ELSE Some([autocommit |-> Value(Value(config).autocommit)])

-----------------------------------------------------------------------------
(* read_csv *)

Unpadded == <<"2", "0", "0", "6", "-", "1", "-", "7">>

CsvDates == {isoformat(d) : d \in ShowDates} \cup {Unpadded}

CsvUrl == Some(<<"https://www.npr.org/2006/01/07/csv">>)

\* the url field of a row: a URL, the empty string, or None when the row is
\* shorter than the header (csv.DictReader's restval)
CsvUrls == {CsvUrl, Some(<< >>), None}

CsvFiles == UNION {[1..n -> [date : CsvDates, url : CsvUrls]] : n \in 0..MaxRows}

HasKey(dict, key) == \E k \in 1..Len(dict) : dict[k].key = key

\* dict[key] = value: a new key goes last, a known key keeps its place
SetItem(dict, key, value) ==
    IF HasKey(dict, key)
    THEN [k \in 1..Len(dict) |->
            IF dict[k].key = key THEN [key |-> key, value |-> value] ELSE dict[k]]
    ELSE Append(dict, [key |-> key, value |-> value])

RECURSIVE ReadLines(_, _)
ReadLines(file, n) ==
    IF n = 0 THEN << >>
    ELSE SetItem(ReadLines(file, n - 1), file[n].date, file[n].url)

read_csv(file) == ReadLines(file, Len(file))

-----------------------------------------------------------------------------
(* retrieve_show_dates *)

retrieve_show_dates ==
    LET rows == OrderByShowdate(DOMAIN View)
    IN  IF rows = << >> THEN None
        ELSE Some([k \in 1..Len(rows) |-> isoformat(rows[k])])

-----------------------------------------------------------------------------
(* Initial state *)

Blank(selected) ==
    /\ uncommitted = << >>
    /\ backfill = FALSE
    /\ show_urls = << >>
    /\ all_show_dates = None
    /\ i = 0
    /\ cursor = FALSE
    /\ shows = selected
    /\ show_url = None
    /\ error = ""
    /\ stdout = << >>
    /\ issued = << >>
    /\ at_start = ww_shows
    /\ at_snapshot = None
    /\ at_return = None
    /\ at_select = None
    /\ passes = << >>
    /\ external = 0

Init ==
    /\ pc = "main"
    /\ ww_shows \in Tables
    /\ autocommit = FALSE
    /\ Blank(<< >>)

-----------------------------------------------------------------------------
(* main *)

\* lines 177-186: arguments, configuration and CSV file
Main ==
    /\ pc = "main"
    /\ \E config \in Configs, file \in CsvFiles, b \in BOOLEAN :
        LET database_config == parse_database_config(config)
        IN  IF database_config = None
            THEN /\ print("ERROR: Database configuration file is not valid.", << >>)
                 /\ error' = "SystemExit(1)"
                 /\ pc' = "exit"
                 /\ UNCHANGED <<backfill, show_urls, autocommit>>
            ELSE /\ show_urls' = read_csv(file)
                 /\ backfill' = b
                 /\ autocommit' = Value(database_config).autocommit
                 /\ IF read_csv(file) = << >>
                    THEN print("INFO: No shows found in CSV file. Skipping.", << >>)
                    ELSE UNCHANGED stdout
                 /\ error' = ""
                 /\ pc' = "connect"
    /\ UNCHANGED <<ww_shows, uncommitted, all_show_dates, i, cursor, shows,
                   show_url, issued, at_start, at_snapshot, at_return,
                   at_select, passes, external>>

\* line 188: mysql_connect, then the call of line 190
Connect ==
    /\ pc = "connect"
    /\ pc' = "update_urls_from_dict"
    /\ UNCHANGED <<ww_shows, uncommitted, autocommit, backfill, show_urls,
                   all_show_dates, i, cursor, shows, show_url, error, stdout,
                   issued, at_start, at_snapshot, at_return, at_select, passes,
                   external>>

BackfillAfterCsv == backfill /\ show_urls # << >>

\* line 192: if command_args.backfill
RunsBackfill == backfill

\* lines 192-195
MainBackfill ==
    /\ pc = "main_backfill"
    /\ pc' = IF RunsBackfill THEN "update_urls_using_template" ELSE "done"
    /\ UNCHANGED <<ww_shows, uncommitted, autocommit, backfill, show_urls,
                   all_show_dates, i, cursor, shows, show_url, error, stdout,
                   issued, at_start, at_snapshot, at_return, at_select, passes,
                   external>>

-----------------------------------------------------------------------------
(* update_urls_from_dict *)

\* lines 117-121: the empty dictionary returns; otherwise the dates are read
DictEnter ==
    /\ pc = "update_urls_from_dict"
    /\ IF show_urls = << >>
       THEN /\ print("ERROR: No show URLs provided.", << >>)
            /\ at_return' = Some(ww_shows)
            /\ pc' = "main_backfill"
            /\ UNCHANGED <<all_show_dates, at_snapshot, i>>
       ELSE /\ all_show_dates' = retrieve_show_dates
            /\ at_snapshot' = Some(ww_shows)
            /\ i' = 1
            /\ pc' = "dict_loop"
            /\ UNCHANGED <<stdout, at_return>>
    /\ UNCHANGED <<ww_shows, uncommitted, autocommit, backfill, show_urls,
                   cursor, shows, show_url, error, issued, at_start,
                   at_select, passes, external>>

NotFoundNever(show) == FALSE

NotFoundNow(show) == show \notin {isoformat(d) : d \in DOMAIN View}

\* line 124: show not in all_show_dates, on a list
NotFound(show) == show \notin Range(Value(all_show_dates))

\* line 124 when retrieve_show_dates returned None: the test raises TypeError
DictTypeError ==
    /\ pc = "dict_loop"
    /\ i <= Len(show_urls)
    /\ all_show_dates = None
    /\ error' = "TypeError"
    /\ pc' = "crashed"
    /\ UNCHANGED <<ww_shows, uncommitted, autocommit, backfill, show_urls,
                   all_show_dates, i, cursor, shows, show_url, stdout, issued,
                   at_start, at_snapshot, at_return, at_select, passes,
                   external>>

\* lines 124-126: the date is not known, the pair is skipped
DictSkip ==
    /\ pc = "dict_loop"
    /\ i <= Len(show_urls)
    /\ all_show_dates # None
    /\ NotFound(show_urls[i].key)
    /\ print("INFO: Show date is not found. Skipping.", show_urls[i].key)
    /\ i' = i + 1
    /\ UNCHANGED <<pc, ww_shows, uncommitted, autocommit, backfill, show_urls,
                   all_show_dates, cursor, shows, show_url, error, issued,
                   at_start, at_snapshot, at_return, at_select, passes,
                   external>>

\* lines 128-139: the UPDATE of a known date
DictUpdate ==
    /\ pc = "dict_loop"
    /\ i <= Len(show_urls)
    /\ all_show_dates # None
    /\ ~NotFound(show_urls[i].key)
    /\ cursor' = TRUE
    /\ Execute(show_urls[i].value, show_urls[i].key, "update_urls_from_dict")
    /\ i' = i + 1
    /\ UNCHANGED <<pc, autocommit, backfill, show_urls, all_show_dates, shows,
                   show_url, error, stdout, at_start, at_snapshot, at_return,
                   at_select, passes, external>>

\* lines 141-142: cursor.close() after the loop; the name is unbound (an
\* UnboundLocalError) when no pair was updated
DictClose ==
    /\ pc = "dict_loop"
    /\ i > Len(show_urls)
    /\ IF cursor
       THEN /\ at_return' = Some(ww_shows)
            /\ pc' = "main_backfill"
            /\ UNCHANGED error
       ELSE /\ error' = "UnboundLocalError"
            /\ pc' = "crashed"
            /\ UNCHANGED at_return
    /\ UNCHANGED <<ww_shows, uncommitted, autocommit, backfill, show_urls,
                   all_show_dates, i, cursor, shows, show_url, stdout, issued,
                   at_start, at_snapshot, at_select, passes, external>>

-----------------------------------------------------------------------------
(* update_urls_using_template *)

AllRows == DOMAIN View

\* lines 150-154: WHERE showurl IS NULL
NullRows == {d \in DOMAIN View : View[d] = NULL}

Pass == [table |-> ww_shows, selected |-> shows', updates |-> Len(issued)]

\* lines 149-161: the selection, and the return when nothing is selected
TemplateSelect ==
    /\ pc = "update_urls_using_template"
    /\ shows' = OrderByShowdate(NullRows)
    /\ at_select' = Some(ww_shows)
    /\ IF shows' = << >>
       THEN /\ print("INFO: No show URLs to update.", << >>)
            /\ passes' = Append(passes, Pass)
            /\ pc' = "done"
            /\ UNCHANGED i
       ELSE /\ i' = 1
            /\ pc' = "template_loop"
            /\ UNCHANGED <<stdout, passes>>
    /\ UNCHANGED <<ww_shows, uncommitted, autocommit, backfill, show_urls,
                   all_show_dates, cursor, show_url, error, issued, at_start,
                   at_snapshot, at_return, external>>

\* lines 163-170: the generated URL of one selected row, and its UPDATE
TemplateUpdate ==
    /\ pc = "template_loop"
    /\ i <= Len(shows)
    /\ show_url' = Some(npr_show_url(shows[i]))
    /\ cursor' = TRUE
    /\ Execute(show_url', isoformat(shows[i]), "update_urls_using_template")
    /\ i' = i + 1
    /\ UNCHANGED <<pc, autocommit, backfill, show_urls, all_show_dates, shows,
                   error, stdout, at_start, at_snapshot, at_return, at_select,
                   passes, external>>

\* line 172: the loop has run at least once, cursor is bound
TemplateClose ==
    /\ pc = "template_loop"
    /\ i > Len(shows)
    /\ passes' = Append(passes, [table |-> ww_shows, selected |-> shows,
                                 updates |-> Len(issued)])
    /\ pc' = "done"
    /\ UNCHANGED <<ww_shows, uncommitted, autocommit, backfill, show_urls,
                   all_show_dates, i, cursor, shows, show_url, error, stdout,
                   issued, at_start, at_snapshot, at_return, at_select,
                   external>>

-----------------------------------------------------------------------------
(* The store outside the process *)

\* the statement about to be sent, if any
AtStatement ==
    \/ pc = "connect"
    \/ pc = "update_urls_from_dict" /\ show_urls # << >>
    \/ /\ pc = "dict_loop" /\ i <= Len(show_urls) /\ all_show_dates # None
       /\ ~NotFound(show_urls[i].key)
    \/ pc = "update_urls_using_template"
    \/ pc = "template_loop" /\ i <= Len(shows)

\* mysql_connect or cursor.execute raises; nothing in populate.py catches it
StoreFailure ==
    /\ AtStatement
    /\ error' = "StoreError"
    /\ pc' = "failed"
    /\ UNCHANGED <<ww_shows, uncommitted, autocommit, backfill, show_urls,
                   all_show_dates, i, cursor, shows, show_url, stdout, issued,
                   at_start, at_snapshot, at_return, at_select, passes,
                   external>>

\* another client inserts a show while update_urls_from_dict iterates
ExternalInsert ==
    /\ pc = "dict_loop"
    /\ external < MaxExternal
    /\ \E d \in ShowDates \ DOMAIN ww_shows, url \in {NULL, StoredUrl} :
        ww_shows' = [e \in DOMAIN ww_shows \cup {d} |->
                        IF e = d THEN url ELSE ww_shows[e]]
    /\ external' = external + 1
    /\ UNCHANGED <<pc, uncommitted, autocommit, backfill, show_urls,
                   all_show_dates, i, cursor, shows, show_url, error, stdout,
                   issued, at_start, at_snapshot, at_return, at_select, passes>>

\* another client deletes a show while update_urls_from_dict iterates
ExternalDelete ==
    /\ pc = "dict_loop"
    /\ external < MaxExternal
    /\ \E d \in DOMAIN ww_shows :
        ww_shows' = [e \in DOMAIN ww_shows \ {d} |-> ww_shows[e]]
    /\ external' = external + 1
    /\ UNCHANGED <<pc, uncommitted, autocommit, backfill, show_urls,
                   all_show_dates, i, cursor, shows, show_url, error, stdout,
                   issued, at_start, at_snapshot, at_return, at_select, passes>>

-----------------------------------------------------------------------------
(* Specifications *)

Run ==
    \/ Main
    \/ Connect
    \/ DictEnter
    \/ DictTypeError
    \/ DictSkip
    \/ DictUpdate
    \/ DictClose
    \/ MainBackfill
    \/ TemplateSelect
    \/ TemplateUpdate
    \/ TemplateClose

\* one run of the program against a store that may fail
Next == Run \/ StoreFailure

Spec == Init /\ [][Next]_vars

\* one run of the program while other clients change the table
NextExternal == Run \/ ExternalInsert \/ ExternalDelete

SpecExternal == Init /\ [][NextExternal]_vars

\* update_urls_using_template called again when it has returned
TemplateAgain ==
    /\ pc = "done"
    /\ Len(passes) < MaxPasses
    /\ pc' = "update_urls_using_template"
    /\ UNCHANGED <<ww_shows, uncommitted, autocommit, backfill, show_urls,
                   all_show_dates, i, cursor, shows, show_url, error, stdout,
                   issued, at_start, at_snapshot, at_return, at_select, passes,
                   external>>

InitBackfill ==
    /\ pc = "update_urls_using_template"
    /\ ww_shows \in TablesOf(BackfillDates)
    /\ autocommit = TRUE
    /\ Blank(<< >>)

NextBackfill == TemplateSelect \/ TemplateUpdate \/ TemplateClose \/ TemplateAgain

\* the backfill pass run MaxPasses times in a row on any table
SpecBackfill == InitBackfill /\ [][NextBackfill]_vars

\* npr_show_url(show_date=shows[1])
CallNprShowUrl ==
    /\ pc = "npr_show_url"
    /\ show_url' = Some(npr_show_url(shows[1]))
    /\ pc' = "returned"
    /\ UNCHANGED <<ww_shows, uncommitted, autocommit, backfill, show_urls,
                   all_show_dates, i, cursor, shows, error, stdout, issued,
                   at_start, at_snapshot, at_return, at_select, passes,
                   external>>

InitUrl ==
    /\ pc = "npr_show_url"
    /\ ww_shows = << >>
    /\ autocommit = FALSE
    /\ \E show_date \in ValidDates : Blank(<<show_date>>)

NextUrl == CallNprShowUrl

\* npr_show_url applied to every date of FirstYear..LastYear
SpecUrl == InitUrl /\ [][NextUrl]_vars

-----------------------------------------------------------------------------
(* Vocabulary of the properties *)

ByDict == "update_urls_from_dict"
ByTemplate == "update_urls_using_template"

\* positions in issued of the updates the explicit pass sent for a date string
DictUpdatesOf(key) ==
    {k \in 1..Len(issued) : issued[k].by = ByDict /\ issued[k].showdate = key}

TemplateUpdates == {k \in 1..Len(issued) : issued[k].by = ByTemplate}

\* the date strings of the records stored when the known dates were read
KnownAtSnapshot ==
    IF at_snapshot = None THEN {}
    ELSE {isoformat(d) : d \in DOMAIN Value(at_snapshot)}

Skipped == {stdout[k].date : k \in {n \in 1..Len(stdout) : stdout[n].date # << >>}}

\* the explicit pass is over: it returned or it raised
DictOver == at_return # None \/ pc = "crashed"

NullDates(table) == {d \in DOMAIN table : table[d] = NULL}

RECURSIVE Applied(_, _)
\* the table after the first n issued updates, each one committed
Applied(table, n) ==
    IF n = 0 THEN table
    ELSE LET before == Applied(table, n - 1)
         IN  [d \in DOMAIN before |->
                IF isoformat(d) = issued[n].showdate THEN issued[n].url
                ELSE before[d]]

-----------------------------------------------------------------------------
(* C1 *)

\* C1: in the explicit pass no update is issued for a mapping date absent from
\* the known-dates snapshot, and when the pass is over every mapping date in
\* the snapshot has had exactly one update, carrying the mapped URL, which is
\* the record's show_url when the pass returns, wherever unmatched pairs sit.
C1_ExplicitUpdatesExactlyKnownDates ==
    /\ \A k \in 1..Len(issued) :
        issued[k].by = ByDict => issued[k].showdate \in KnownAtSnapshot
    /\ DictOver =>
        \A j \in 1..Len(show_urls) :
            show_urls[j].key \in KnownAtSnapshot =>
                /\ Cardinality(DictUpdatesOf(show_urls[j].key)) = 1
                /\ \A k \in DictUpdatesOf(show_urls[j].key) :
                    issued[k].url = show_urls[j].value
                /\ at_return # None
                /\ \A d \in DOMAIN Value(at_return) :
                    isoformat(d) = show_urls[j].key =>
                        Value(at_return)[d] = show_urls[j].value

\* an unmatched pair comes first, the matched pair after it replaces a stored URL
C1_Witness ==
    /\ at_return # None
    /\ Len(show_urls) = 2
    /\ show_urls[1].key \notin KnownAtSnapshot
    /\ show_urls[2].key \in KnownAtSnapshot
    /\ show_urls[2].value = CsvUrl
    /\ Len(issued) = 1
    /\ \E d \in DOMAIN at_start :
        /\ isoformat(d) = show_urls[2].key
        /\ at_start[d] = StoredUrl
        /\ Value(at_return)[d] = CsvUrl

-----------------------------------------------------------------------------
(* C2 *)

\* C2: an unmatched mapping date is not an error: whatever the table holds,
\* the explicit pass of a non-empty mapping skips the unmatched dates and
\* ends normally, it never raises.
C2_UnmatchedDatesNeverRaise ==
    show_urls # << >> => pc # "crashed"

-----------------------------------------------------------------------------
(* C3 *)

\* C3: the backfill pass never overwrites a non-NULL show_url: every record
\* that is non-NULL when the pass selects keeps its show_url, and every
\* update of the pass is for a record that was NULL at the selection.
C3_BackfillKeepsNonNull ==
    /\ \A k \in TemplateUpdates :
        /\ at_select # None
        /\ \E d \in NullDates(Value(at_select)) : isoformat(d) = issued[k].showdate
    /\ at_select # None =>
        \A d \in DOMAIN Value(at_select) :
            Value(at_select)[d] # NULL =>
                d \in DOMAIN ww_shows /\ ww_shows[d] = Value(at_select)[d]

\* a finished pass that updated a record beside one that had a URL
C3_Witness ==
    /\ pc = "done"
    /\ TemplateUpdates # {}
    /\ at_select # None
    /\ \E d \in DOMAIN Value(at_select) : Value(at_select)[d] = StoredUrl

-----------------------------------------------------------------------------
(* C4 *)

\* C4: in a run with --backfill, a record that is NULL at the start and whose
\* date is in the CSV mapping is not selected by the backfill pass, and its
\* final show_url is the value the CSV gave.
C4_ExplicitTakesPrecedence ==
    (pc = "done" /\ backfill) =>
        \A j \in 1..Len(show_urls) : \A d \in NullDates(at_start) :
            isoformat(d) = show_urls[j].key =>
                /\ d \notin Range(shows)
                /\ ww_shows[d] = show_urls[j].value

-----------------------------------------------------------------------------
(* C5 *)

\* C5: backfill is idempotent: a backfill pass that follows another one
\* selects nothing, issues no update and leaves the table of the first pass.
C5_BackfillIdempotent ==
    \A k \in 2..Len(passes) :
        /\ passes[k].selected = << >>
        /\ passes[k].updates = passes[k - 1].updates
        /\ passes[k].table = passes[k - 1].table

\* a second pass has ended after a first pass that updated records
C5_Witness ==
    /\ Len(passes) = 2
    /\ passes[1].selected # << >>
    /\ passes[1].updates > 0

-----------------------------------------------------------------------------
(* C6 *)

\* C6: with an empty CSV mapping and --backfill the explicit step issues no
\* update and does not fail, reports that no URL was provided, and the
\* backfill pass still runs: at the end of the run it has selected every
\* record that was NULL and given it its generated URL.
C6_EmptyCsvStillBackfills ==
    (show_urls = << >> /\ backfill) =>
        /\ \A k \in 1..Len(issued) : issued[k].by # ByDict
        /\ pc # "crashed"
        /\ pc = "done" =>
            /\ at_select # None
            /\ \E k \in 1..Len(stdout) :
                stdout[k].text = "ERROR: No show URLs provided."
            /\ Range(shows) = NullDates(at_start)
            /\ \A d \in NullDates(at_start) : ww_shows[d] = Some(npr_show_url(d))

\* the run ended after backfilling a record although the CSV was empty
C6_Witness ==
    /\ pc = "done"
    /\ backfill
    /\ show_urls = << >>
    /\ TemplateUpdates # {}

-----------------------------------------------------------------------------
(* C7 *)

\* the number a string of decimal digits writes, -1 when it is no such string
DigitValue(c) ==
    CASE c = "0" -> 0 [] c = "1" -> 1 [] c = "2" -> 2 [] c = "3" -> 3
      [] c = "4" -> 4 [] c = "5" -> 5 [] c = "6" -> 6 [] c = "7" -> 7
      [] c = "8" -> 8 [] c = "9" -> 9 [] OTHER -> -1

RECURSIVE Number(_)
Number(s) ==
    IF s = << >> THEN 0
    ELSE IF DigitValue(s[Len(s)]) < 0 \/ Number(SubSeq(s, 1, Len(s) - 1)) < 0
         THEN -1
         ELSE 10 * Number(SubSeq(s, 1, Len(s) - 1)) + DigitValue(s[Len(s)])

MonthNames ==
    << <<"j", "a", "n">>, <<"f", "e", "b">>, <<"m", "a", "r">>,
       <<"a", "p", "r">>, <<"m", "a", "y">>, <<"j", "u", "n">>,
       <<"j", "u", "l">>, <<"a", "u", "g">>, <<"s", "e", "p">>,
       <<"o", "c", "t">>, <<"n", "o", "v">>, <<"d", "e", "c">> >>

\* a day count that grows with the calendar
DayNumber(dt) == (dt.year * 12 + (dt.month - 1)) * 31 + (dt.day - 1)

\* prefix, MM-DD-YYYY
IsModernUrl(url, dt) ==
    /\ Len(url) = 11
    /\ url[1] = "https://www.npr.org/programs/wait-wait-dont-tell-me/archive?date="
    /\ Number(SubSeq(url, 2, 3)) = dt.month
    /\ url[4] = "-"
    /\ Number(SubSeq(url, 5, 6)) = dt.day
    /\ url[7] = "-"
    /\ Number(SubSeq(url, 8, 11)) = dt.year

\* prefix, /YYYY/mon/YYMMDD, suffix
IsLegacyUrl(url, dt) ==
    /\ Len(url) = 18
    /\ url[1] = "https://legacy.npr.org/programs/waitwait/archrndwn"
    /\ url[2] = "/"
    /\ Number(SubSeq(url, 3, 6)) = dt.year
    /\ url[7] = "/"
    /\ SubSeq(url, 8, 10) = MonthNames[dt.month]
    /\ url[11] = "/"
    /\ Number(SubSeq(url, 12, 13)) = dt.year % 100
    /\ Number(SubSeq(url, 14, 15)) = dt.month
    /\ Number(SubSeq(url, 16, 17)) = dt.day
    /\ url[18] = ".waitwait.html"

\* C7: npr_show_url returns a URL for every date; the URL follows the modern
\* scheme (prefix, zero-padded MM-DD-YYYY) exactly when the date is 2006-01-07
\* or later, and otherwise the legacy scheme (prefix, four-digit year,
\* lowercase three-letter month, YYMMDD, ".waitwait.html").
C7_UrlSchemeByCutoff ==
    pc = "returned" =>
        /\ show_url # None
        /\ IF DayNumber(shows[1]) >= DayNumber(Date(2006, 1, 7))
           THEN IsModernUrl(Value(show_url), shows[1])
                /\ ~IsLegacyUrl(Value(show_url), shows[1])
           ELSE IsLegacyUrl(Value(show_url), shows[1])
                /\ ~IsModernUrl(Value(show_url), shows[1])

\* the URL of the boundary date has been returned, in the modern scheme
C7_Witness ==
    /\ pc = "returned"
    /\ shows[1] = Date(2006, 1, 7)
    /\ Value(show_url) = <<"https://www.npr.org/programs/wait-wait-dont-tell-me/archive?date=",
                           "0", "1", "-", "0", "7", "-", "2", "0", "0", "6">>

-----------------------------------------------------------------------------
(* C8 *)

\* C8: the explicit pass decides every pair against the dates stored when it
\* read them, before its first update: a record another client inserts or
\* deletes while the pass iterates changes no decision.  The backfill pass
\* selects the records that are NULL once the explicit pass has returned.
C8_PairsDecidedAgainstSnapshot ==
    /\ \A k \in 1..Len(issued) :
        issued[k].by = ByDict => issued[k].showdate \in KnownAtSnapshot
    /\ Skipped \cap KnownAtSnapshot = {}
    /\ at_return # None /\ at_snapshot # None =>
        \A j \in 1..Len(show_urls) :
            IF show_urls[j].key \in KnownAtSnapshot
            THEN DictUpdatesOf(show_urls[j].key) # {}
            ELSE show_urls[j].key \in Skipped
    /\ at_select # None =>
        /\ at_return # None
        /\ Range(shows) = NullDates(Value(at_return))

\* a pair was skipped although its record is stored when the pass returns,
\* and another pair was updated
C8_Witness ==
    /\ at_return # None
    /\ external > 0
    /\ \E j \in 1..Len(show_urls) :
        /\ show_urls[j].key \in Skipped
        /\ show_urls[j].key \in {isoformat(d) : d \in DOMAIN Value(at_return)}
    /\ \E k \in 1..Len(issued) : issued[k].by = ByDict

-----------------------------------------------------------------------------
(* C9 *)

\* C9: a store failure ends the run where it occurs: the updates issued
\* before it stay applied in the table, no update follows it, and the
\* backfill pass is not started when the explicit pass failed.
C9_FailureKeepsEarlierUpdates ==
    /\ [](pc = "failed" =>
            /\ ww_shows = Applied(at_start, Len(issued))
            /\ at_return = None => at_select = None /\ TemplateUpdates = {})
    /\ [][pc = "failed" =>
            pc' = "failed" /\ issued' = issued /\ ww_shows' = ww_shows]_vars

\* the second update of the explicit pass failed after the first changed the table
C9_Witness ==
    /\ pc = "failed"
    /\ at_return = None
    /\ Len(issued) = 1
    /\ i = 2
    /\ ww_shows # at_start

-----------------------------------------------------------------------------
(* C10 *)

\* C10: a run with a valid configuration and --backfill that meets no store
\* failure reaches its end; then no record has a NULL show_url, the stored
\* dates are those of the start, and every record that had a URL and whose
\* date is not in the CSV mapping is unchanged.
C10_RunEndsWithEveryUrlSet ==
    (backfill /\ pc \in {"done", "crashed"}) =>
        /\ pc = "done"
        /\ NullDates(ww_shows) = {}
        /\ DOMAIN ww_shows = DOMAIN at_start
        /\ \A d \in DOMAIN at_start :
            (at_start[d] # NULL /\ ~HasKey(show_urls, isoformat(d))) =>
                ww_shows[d] = at_start[d]

====
